---- MODULE Spec2Model ----
(***************************************************************************)
(* Model of protocol/build.rs: the build script that resolves packet field *)
(* codecs, drops packets with unknown codecs, groups the packet names into *)
(* a module tree, and emits the nested modules, the packet blocks and the  *)
(* registration function.                                                  *)
(*                                                                         *)
(* Strings that the program splits, joins or orders (packet names, module  *)
(* names, identifiers) are sequences of character codes.  Field names,     *)
(* codec aliases and types are only looked up, so they stay TLA+ strings.  *)
(***************************************************************************)
EXTENDS Integers, Sequences, FiniteSets, TLC

VARIABLES
  pc,           \* position in main: "resolve","group","start","fmt","register","done","panicked"
  input,        \* packets.yaml as read (never written again)
  codecs,       \* codecs.yaml: alias -> type
  definitions,  \* BTreeMap<i32, PacketDefinition>: entries in ascending id order
  next_def,     \* position of the iterator of the resolve loop
  skipped,      \* BTreeSet<i32>
  warnings,     \* the cargo:warning lines printed, as <<codec, id>>
  modules,      \* root_module: arena of Module nodes, node 1 is the root
  calls,        \* the active invocations of fmt, innermost last
  path,         \* path: &mut Vec<&Module>
  out           \* the String out / formatter, as a sequence of emitted blocks

vars == <<pc, input, codecs, definitions, next_def, skipped, warnings,
          modules, calls, path, out>>

----------------------------------------------------------------------------
(* Bounds *)

MaxPackets == 2

----------------------------------------------------------------------------
(* Characters and strings *)

Dot == 46
Colon == 58

\* Option<String>: None is the empty sequence, Some(s) is <<s>>
None == <<>>
Some(s) == <<s>>

Str_b == <<98>>
Str_a_b == <<97, Dot, 98>>
Str_b_c == <<98, Dot, 99>>
Str_a_b_c == <<97, Dot, 98, Dot, 99>>
Str_dot_a_b == <<Dot, 97, Dot, 98>>
Str_a_cc_b == <<97, Colon, Colon, 98>>
Str_a_dd_b == <<97, Dot, Dot, 98>>
Str_packets == <<112, 97, 99, 107, 101, 116, 115>>

\* Byte-wise lexicographic order of String, the key order of a BTreeMap<String, _>
RECURSIVE StrLess(_, _)
StrLess(s, t) ==
  IF t = <<>> THEN FALSE
  ELSE IF s = <<>> THEN TRUE
  ELSE IF Head(s) < Head(t) THEN TRUE
  ELSE IF Head(s) > Head(t) THEN FALSE
  ELSE StrLess(Tail(s), Tail(t))

\* str::replace('.', "::")
RECURSIVE replace_dot(_)
replace_dot(s) ==
  IF s = <<>> THEN <<>>
  ELSE IF Head(s) = Dot THEN <<Colon, Colon>> \o replace_dot(Tail(s))
  ELSE <<Head(s)>> \o replace_dot(Tail(s))

\* str::split("::"): leftmost non-overlapping matches, empty pieces kept
RECURSIVE split_from(_, _)
split_from(s, cur) ==
  IF s = <<>> THEN <<cur>>
  ELSE IF Len(s) >= 2 /\ s[1] = Colon /\ s[2] = Colon
       THEN <<cur>> \o split_from(SubSeq(s, 3, Len(s)), <<>>)
  ELSE split_from(Tail(s), Append(cur, Head(s)))

split(s) == split_from(s, <<>>)

----------------------------------------------------------------------------
(* Inputs *)

\* Field names in BTreeMap key order
FieldOrder == <<"objectId", "object_id", "val">>

\* name.from_case(Case::Camel).to_case(Case::Snake) on the field names used
to_snake == [n \in {"objectId", "object_id", "val"} |->
               IF n = "objectId" THEN "object_id" ELSE n]

CodecTables ==
  { [c \in {"i32", "str"} |-> IF c = "i32" THEN "i32" ELSE "String"],
    [c \in {"i32"} |-> "i32"] }

\* (model, fields) of a packet definition as written in packets.yaml
PacketShapes ==
  { [model |-> 7, fields |-> [f \in {"objectId"} |-> "i32"]],
    [model |-> 5, fields |-> [f \in {"objectId", "object_id"} |->
                                IF f = "objectId" THEN "i32" ELSE "str"]],
    [model |-> 9, fields |-> [f \in {"objectId", "object_id", "val"} |->
                                CASE f = "objectId" -> "weird"
                                  [] f = "object_id" -> "str"
                                  [] OTHER -> "i32"]] }

PacketNames ==
  { None, Some(Str_b), Some(Str_a_b), Some(Str_b_c), Some(Str_a_b_c),
    Some(Str_dot_a_b), Some(Str_a_cc_b), Some(Str_a_dd_b) }

\* A packet table: ids 1..n, iterated in ascending id order
PacketTables ==
  UNION { { [i \in 1..n |-> [id |-> i, name |-> nm[i],
                             model |-> sh[i].model, fields |-> sh[i].fields]]
            : nm \in [1..n -> PacketNames], sh \in [1..n -> PacketShapes] }
          : n \in 0..MaxPackets }

----------------------------------------------------------------------------
(* Resolve and filter: main, lines 192-213 *)

Insert(map, key, value) ==
  [k \in DOMAIN map \cup {key} |-> IF k = key THEN value ELSE map[k]]

\* The inner loop of main over definition.fields, from position i of the key order.
\* Yields the fields built and the codecs that had no type.
\* Variant: the loop stops at the first codec that has no type
RECURSIVE resolve_fields_break(_, _, _, _, _)
resolve_fields_break(raw, table, i, fields, missing) ==
  IF i > Len(FieldOrder) THEN [fields |-> fields, missing |-> missing]
  ELSE LET name == FieldOrder[i] IN
       IF name \notin DOMAIN raw
         THEN resolve_fields_break(raw, table, i + 1, fields, missing)
       ELSE IF raw[name] \in DOMAIN table
         THEN resolve_fields_break(raw, table, i + 1,
                             Insert(fields, to_snake[name], table[raw[name]]), missing)
       ELSE [fields |-> fields, missing |-> Append(missing, raw[name])]

RECURSIVE resolve_fields(_, _, _, _, _)
resolve_fields(raw, table, i, fields, missing) ==
  IF i > Len(FieldOrder) THEN [fields |-> fields, missing |-> missing]
  ELSE LET name == FieldOrder[i] IN
       IF name \notin DOMAIN raw
         THEN resolve_fields(raw, table, i + 1, fields, missing)
       ELSE IF raw[name] \in DOMAIN table
         THEN resolve_fields(raw, table, i + 1,
                             Insert(fields, to_snake[name], table[raw[name]]), missing)
       ELSE resolve_fields(raw, table, i + 1, fields, Append(missing, raw[name]))

EmptyMap == [k \in {} |-> ""]

Init ==
  /\ pc = "resolve"
  /\ codecs \in CodecTables
  /\ input \in PacketTables
  /\ definitions = input
  /\ next_def = 1
  /\ skipped = {}
  /\ warnings = <<>>
  /\ modules = <<>>
  /\ calls = <<>>
  /\ path = <<>>
  /\ out = <<>>

\* One iteration of the loop over definitions.iter_mut()
ResolveDefinition ==
  /\ pc = "resolve"
  /\ next_def <= Len(definitions)
  /\ LET definition == definitions[next_def]
         r == resolve_fields(definition.fields, codecs, 1, EmptyMap, <<>>)
     IN /\ definitions' = [definitions EXCEPT ![next_def].fields = r.fields]
        /\ warnings' = warnings \o [j \in 1..Len(r.missing) |->
                                      <<r.missing[j], definition.id>>]
        /\ skipped' = IF r.missing = <<>> THEN skipped
                      ELSE skipped \cup {definition.id}
  /\ next_def' = next_def + 1
  /\ UNCHANGED <<pc, input, codecs, modules, calls, path, out>>

\* Variant: the retain predicate without the negation
keep_inverted(id) == id \in skipped

keep(id) == id \notin skipped

\* definitions.retain(|it, _| !skipped.contains(it))
Retain ==
  /\ pc = "resolve"
  /\ next_def > Len(definitions)
  /\ definitions' = SelectSeq(definitions, LAMBDA d : keep(d.id))
  /\ pc' = "group"
  /\ UNCHANGED <<input, codecs, next_def, skipped, warnings, modules, calls, path, out>>

----------------------------------------------------------------------------
(* Module tree: struct Module and Module::group_identifiers, lines 82-120 *)

\* Module::new
Module_new(name, parent) ==
  [name |-> name, parent |-> parent, identifiers |-> <<>>]

\* The children map of node p: the nodes owned by p
children_of(nodes, p) == { i \in 1..Len(nodes) : nodes[i].parent = p }

\* Variant: a child is created for every part, present or not
entry_always_insert(nodes, p, part) ==
  [nodes |-> Append(nodes, Module_new(part, p)), at |-> Len(nodes) + 1]

\* parent_module.children.entry(part).or_insert_with(|| Module::new(part))
entry_or_insert(nodes, p, part) ==
  LET found == { i \in children_of(nodes, p) : nodes[i].name = part } IN
  IF found # {}
    THEN [nodes |-> nodes, at |-> CHOOSE i \in found : TRUE]
    ELSE [nodes |-> Append(nodes, Module_new(part, p)), at |-> Len(nodes) + 1]

\* The loop over parts.iter().take(parts.len() - 1), from part k
RECURSIVE descend(_, _, _, _)
descend(nodes, p, parts, k) ==
  IF k > Len(parts) - 1 THEN [nodes |-> nodes, at |-> p]
  ELSE IF parts[k] = <<>> THEN descend(nodes, p, parts, k + 1)
  ELSE LET e == entry_or_insert(nodes, p, parts[k])
       IN descend(e.nodes, e.at, parts, k + 1)

\* One iteration of the loop over identifiers
add_identifier(nodes, identifier) ==
  LET parts == split(identifier)
      d == descend(nodes, 1, parts, 1)
  IN [d.nodes EXCEPT ![d.at].identifiers = Append(@, parts[Len(parts)])]

RECURSIVE group_from(_, _, _)
group_from(nodes, identifiers, k) ==
  IF k > Len(identifiers) THEN nodes
  ELSE group_from(add_identifier(nodes, identifiers[k]), identifiers, k + 1)

group_identifiers(root, identifiers) ==
  group_from(<<Module_new(root, 0)>>, identifiers, 1)

\* module.children.values(): the children of p in key order
RECURSIVE sorted_nodes(_, _)
sorted_nodes(nodes, S) ==
  IF S = {} THEN <<>>
  ELSE LET m == CHOOSE i \in S : \A j \in S \ {i} :
                  \/ StrLess(nodes[i].name, nodes[j].name)
                  \/ (nodes[i].name = nodes[j].name /\ i < j)
       IN <<m>> \o sorted_nodes(nodes, S \ {m})

children_values(nodes, p) == sorted_nodes(nodes, children_of(nodes, p))

\* definitions.values().filter_map(|it| it.name.as_ref()).map(|it| it.replace('.', "::"))
RECURSIVE names_from(_, _)
names_from(defs, k) ==
  IF k > Len(defs) THEN <<>>
  ELSE IF defs[k].name = None THEN names_from(defs, k + 1)
  ELSE <<replace_dot(defs[k].name[1])>> \o names_from(defs, k + 1)

GroupIdentifiers ==
  /\ pc = "group"
  /\ modules' = group_identifiers(Str_packets, names_from(definitions, 1))
  /\ pc' = "start"
  /\ UNCHANGED <<input, codecs, definitions, next_def, skipped, warnings, calls, path, out>>

----------------------------------------------------------------------------
(* Emission: generate_*, indent and fmt, lines 20-80 and 122-177 *)

generate_struct(name, fields) == [name |-> name, fields |-> fields]

generate_codec(name, fields) == [name |-> name, fields |-> DOMAIN fields]

generate_packet(packet_id, name, model_id) ==
  [name |-> name, packet_id |-> packet_id, model_id |-> model_id]

\* Variant: the block is pushed without indentation
indent_none(block, depth) == block

\* indent(string, depth): every line of the block is prefixed by depth indents
indent(block, depth) == [block EXCEPT !.depth = depth]

mod_open(name) == [kind |-> "mod", name |-> name, depth |-> 0]
mod_close == [kind |-> "close", depth |-> 0]

packet_block(id, qualified, identifier, definition) ==
  [kind |-> "packet", depth |-> 0, id |-> id, path |-> qualified,
   struct |-> generate_struct(identifier, definition.fields),
   codec |-> generate_codec(identifier, definition.fields),
   packet |-> generate_packet(id, identifier, definition.model)]

\* path.iter().map(|it| format!("{}.", it.name)).collect().join("") + identifier
RECURSIVE join_path(_, _, _)
join_path(nodes, p, identifier) ==
  IF p = <<>> THEN identifier
  ELSE nodes[Head(p)].name \o <<Dot>> \o join_path(nodes, Tail(p), identifier)

\* definitions.iter().find(|(_, packet)| packet.name.as_deref() == Some(&path)):
\* the position of the first match, 0 for no match
find(defs, qualified) ==
  LET hits == { i \in 1..Len(defs) : defs[i].name = Some(qualified) } IN
  IF hits = {} THEN 0 ELSE CHOOSE i \in hits : \A j \in hits : i <= j

\* Variant: fmt returns without popping
pop_missing(p) == p

\* path.pop()
pop(p) == IF p = <<>> THEN p ELSE SubSeq(p, 1, Len(p) - 1)

Frame(m, depth) == [module |-> m, depth |-> depth, child |-> 1, ident |-> 1]

Top == calls[Len(calls)]

\* main, lines 220-227: the header, then the call fmt(root_module, depth 0)
FmtStart ==
  /\ pc = "start"
  /\ out' = <<[kind |-> "header"], indent(mod_open(modules[1].name), 0)>>
  /\ path' = <<>>
  /\ calls' = <<Frame(1, 0)>>
  /\ pc' = "fmt"
  /\ UNCHANGED <<input, codecs, definitions, next_def, skipped, warnings, modules>>

\* fmt, lines 147-150 and 141-145 of the callee: push the child, enter fmt for it
FmtChild ==
  /\ pc = "fmt"
  /\ LET f == Top
         kids == children_values(modules, f.module)
     IN /\ f.child <= Len(kids)
        /\ LET c == kids[f.child] IN
           /\ path' = Append(path, c)
           /\ calls' = Append([calls EXCEPT ![Len(calls)].child = f.child + 1],
                              Frame(c, f.depth + 1))
           /\ out' = Append(out, indent(mod_open(modules[c].name), f.depth + 1))
  /\ UNCHANGED <<pc, input, codecs, definitions, next_def, skipped, warnings, modules>>

\* fmt, lines 152-169: one iteration of the loop over module.identifiers
FmtIdentifier ==
  /\ pc = "fmt"
  /\ LET f == Top
         m == modules[f.module]
     IN /\ f.child > Len(children_values(modules, f.module))
        /\ f.ident <= Len(m.identifiers)
        /\ LET identifier == m.identifiers[f.ident]
               qualified == join_path(modules, path, identifier)
               at == find(definitions, qualified)
           IN IF at = 0
                THEN \* .unwrap() on None
                     /\ pc' = "panicked"
                     /\ UNCHANGED <<calls, out>>
                ELSE /\ pc' = pc
                     /\ calls' = [calls EXCEPT ![Len(calls)].ident = f.ident + 1]
                     /\ out' = IF definitions[at].name = None
                                 THEN out   \* the comment goes to the local string only
                                 ELSE Append(out, indent(packet_block(definitions[at].id,
                                               qualified, identifier, definitions[at]),
                                               f.depth + 1))
  /\ UNCHANGED <<input, codecs, definitions, next_def, skipped, warnings, modules, path>>

\* fmt, lines 171-176: close the block, pop the path, return
FmtReturn ==
  /\ pc = "fmt"
  /\ LET f == Top
     IN /\ f.child > Len(children_values(modules, f.module))
        /\ f.ident > Len(modules[f.module].identifiers)
        /\ out' = Append(out, indent(mod_close, f.depth))
  /\ path' = pop(path)
  /\ calls' = SubSeq(calls, 1, Len(calls) - 1)
  /\ pc' = IF Len(calls) = 1 THEN "register" ELSE "fmt"
  /\ UNCHANGED <<input, codecs, definitions, next_def, skipped, warnings, modules>>

----------------------------------------------------------------------------
(* Registration: main, lines 229-241 *)

\* Variant: the name is written without replacing the dots
RECURSIVE register_from_raw(_, _)
register_from_raw(defs, k) ==
  IF k > Len(defs) THEN <<>>
  ELSE IF defs[k].name = None THEN register_from_raw(defs, k + 1)
  ELSE <<[kind |-> "register", name |-> defs[k].name[1]]>>
         \o register_from_raw(defs, k + 1)

RECURSIVE register_from(_, _)
register_from(defs, k) ==
  IF k > Len(defs) THEN <<>>
  ELSE IF defs[k].name = None THEN register_from(defs, k + 1)
  ELSE <<[kind |-> "register", name |-> replace_dot(defs[k].name[1])]>>
         \o register_from(defs, k + 1)

Register ==
  /\ pc = "register"
  /\ out' = out \o <<[kind |-> "internal"]>> \o register_from(definitions, 1)
                \o <<[kind |-> "end"]>>
  /\ pc' = "done"
  /\ UNCHANGED <<input, codecs, definitions, next_def, skipped, warnings,
                 modules, calls, path>>

----------------------------------------------------------------------------

Next ==
  \/ ResolveDefinition
  \/ Retain
  \/ GroupIdentifiers
  \/ FmtStart
  \/ FmtChild
  \/ FmtIdentifier
  \/ FmtReturn
  \/ Register

Spec == Init /\ [][Next]_vars

----------------------------------------------------------------------------
(* Properties.  They are stated over the input tables, not over the        *)
(* intermediate values the program computes from them.                     *)

\* The fields of an input definition whose codec alias is not a key of the codec table
Unresolved(d) == { f \in DOMAIN d.fields : d.fields[f] \notin DOMAIN codecs }

Ids(defs) == { defs[k].id : k \in 1..Len(defs) }

ResolvedIds == { input[i].id : i \in { j \in 1..Len(input) : Unresolved(input[j]) = {} } }

Filtered == pc \notin {"resolve"}

\* C1: after the resolve-and-filter stage a packet id is retained iff every one
\* of its fields' codec aliases is a key of the codec table; the retained ids
\* are a subset of the input ids, no more than them, and in ascending order.
C1_RetainedIffResolved ==
  Filtered =>
    /\ Ids(definitions) = ResolvedIds
    /\ Ids(definitions) \subseteq Ids(input)
    /\ Len(definitions) <= Len(input)
    /\ \A i \in 1..Len(input) :
         input[i].id \notin Ids(definitions) => Unresolved(input[i]) # {}
    /\ \A j, k \in 1..Len(definitions) : j < k => definitions[j].id < definitions[k].id

C1_Witness ==
  /\ pc = "group"
  /\ Len(input) = 2
  /\ Len(definitions) = 1
  /\ definitions[1].id = 2

\* The packets the resolve loop has gone through
Processed == IF pc = "resolve" THEN next_def - 1 ELSE Len(input)

RECURSIVE SumUnresolved(_)
SumUnresolved(n) ==
  IF n = 0 THEN 0 ELSE Cardinality(Unresolved(input[n])) + SumUnresolved(n - 1)

C2_Diagnostics ==
  /\ Len(warnings) = SumUnresolved(Processed)
  /\ \A i \in 1..Processed : \A f \in Unresolved(input[i]) :
       Cardinality({ k \in 1..Len(warnings) :
                       warnings[k] = <<input[i].fields[f], input[i].id>> }) = 1
  /\ \A k \in 1..Len(warnings) : \E i \in 1..Processed : \E f \in Unresolved(input[i]) :
       warnings[k] = <<input[i].fields[f], input[i].id>>
  /\ Filtered => \A i \in 1..Len(input) :
       Unresolved(input[i]) # {} => input[i].id \notin Ids(definitions)

\* The resolve stage never stops the run: each of its steps stays in the loop
\* or hands over to the grouping and emission stages
C2_GoesOn ==
  pc = "resolve" =>
    /\ pc' \in {"resolve", "group"}
    /\ pc' = "resolve" => next_def' = next_def + 1

\* C2: an unresolved codec alias is a soft failure: exactly one diagnostic per
\* field whose alias is absent, naming the alias and the packet id; the other
\* fields and packets are still processed, the packet is excluded, and the run
\* goes on to emission however many aliases are unresolved.
C2_SoftFailure == [](C2_Diagnostics) /\ [][C2_GoesOn]_vars

C2_Witness ==
  /\ pc = "start"
  /\ Len(input) = 2
  /\ Cardinality(Unresolved(input[1])) = 2
  /\ Cardinality(Unresolved(input[2])) = 1
  /\ Len(warnings) = 3

RECURSIVE ExpectedRegistrations(_)
ExpectedRegistrations(i) ==
  IF i > Len(input) THEN <<>>
  ELSE IF Unresolved(input[i]) = {} /\ input[i].name # None
    THEN <<replace_dot(input[i].name[1])>> \o ExpectedRegistrations(i + 1)
  ELSE ExpectedRegistrations(i + 1)

Registrations ==
  LET regs == SelectSeq(out, LAMBDA b : b.kind = "register")
  IN [k \in 1..Len(regs) |-> regs[k].name]

\* C5: the registration procedure holds exactly one statement per retained,
\* named packet, none for a skipped or nameless one, in ascending id order.
C5_Registrations ==
  /\ pc = "done" => Registrations = ExpectedRegistrations(1)
  /\ pc # "done" => Registrations = <<>>

C5_Witness ==
  /\ pc = "done"
  /\ Len(input) = 2
  /\ Len(Registrations) = 2
  /\ Registrations[1] # Registrations[2]
  /\ \E k \in 1..Len(Registrations[1]) : Registrations[1][k] = Colon

----------------------------------------------------------------------------
(* The module tree *)

Built == pc \notin {"resolve", "group"}

\* The nodes from the root's child down to node i (empty for the root)
RECURSIVE Chain(_)
Chain(i) == IF i = 1 THEN <<>> ELSE Append(Chain(modules[i].parent), i)

NamesOf(chain) == [k \in 1..Len(chain) |-> modules[chain[k]].name]

\* The retained definitions, from the input tables
Retained == { input[i] : i \in { j \in 1..Len(input) : Unresolved(input[j]) = {} } }

\* The non-empty segments before the last one of a qualified name
NonEmpty(parts) == SelectSeq(parts, LAMBDA x : x # <<>>)
PrefixSegments(qualified) ==
  LET parts == split(qualified) IN NonEmpty(SubSeq(parts, 1, Len(parts) - 1))

QualifiedNames == { replace_dot(d.name[1]) : d \in { r \in Retained : r.name # None } }

PrefixPaths ==
  UNION { { SubSeq(PrefixSegments(q), 1, n) : n \in 1..Len(PrefixSegments(q)) }
          : q \in QualifiedNames }

\* C8: group_identifiers fetches or creates: one node per distinct (parent,
\* segment) pair, that is one node per distinct non-empty prefix path of the
\* names and no other node; children are enumerated in sorted segment order;
\* building again from the same names gives the tree that was built.
C8_FetchOrCreate ==
  Built =>
    /\ \A i, j \in 2..Len(modules) :
         (modules[i].parent = modules[j].parent /\ modules[i].name = modules[j].name)
           => i = j
    /\ { NamesOf(Chain(i)) : i \in 2..Len(modules) } = PrefixPaths
    /\ Len(modules) - 1 = Cardinality(PrefixPaths)
    /\ \A p \in 1..Len(modules) :
         LET kids == children_values(modules, p) IN
         /\ { kids[k] : k \in 1..Len(kids) } = children_of(modules, p)
         /\ \A k \in 1..(Len(kids) - 1) :
              StrLess(modules[kids[k]].name, modules[kids[k + 1]].name)
    /\ modules = group_identifiers(Str_packets, names_from(definitions, 1))

\* Two names go through the same module, and the root has two children
\* that were created in descending order
C8_Witness ==
  /\ pc = "start"
  /\ Len(modules) = 3
  /\ modules[2].parent = 1
  /\ modules[3].parent = 1
  /\ StrLess(modules[3].name, modules[2].name)

\* C6: every leaf identifier, joined with the names of its ancestors (root
\* excluded), is the qualified name of exactly one retained packet, for every
\* input name, also one with a leading separator or another empty segment.
C6_LeafReconstructsOnePacket ==
  Built =>
    \A i \in 1..Len(modules) : \A k \in 1..Len(modules[i].identifiers) :
      Cardinality({ d \in Retained :
        d.name = Some(join_path(modules, Chain(i), modules[i].identifiers[k])) }) = 1

----------------------------------------------------------------------------
(* Emission *)

InFmt == pc = "fmt"

\* C10: the path stack is balanced: while fmt works on a node, also on its
\* leaves after its children were emitted, the stack is the chain from the
\* root's child to that node; when fmt returns for a non-root node the stack
\* is again what it was before the caller pushed the node.
C10_PathIsChain == InFmt => path = Chain(Top.module)

C10_ReturnRestores ==
  (InFmt /\ Len(calls) > 1 /\ Len(calls') < Len(calls))
    => path' = Chain(modules[Top.module].parent)

C10_PathBalanced == [](C10_PathIsChain) /\ [][C10_ReturnRestores]_vars

\* fmt is at a leaf of a non-root node whose children have been emitted
C10_Witness ==
  /\ InFmt
  /\ Top.module # 1
  /\ Top.child > 1
  /\ Top.ident = 1
  /\ modules[Top.module].identifiers # <<>>
  /\ Len(path) = 1

\* What the claim says fmt emits for node i at the given depth
RECURSIVE ExpectedBlocks(_, _)
RECURSIVE ExpectedChildren(_, _, _)
ExpectedChildren(kids, k, depth) ==
  IF k > Len(kids) THEN <<>>
  ELSE ExpectedBlocks(kids[k], depth) \o ExpectedChildren(kids, k + 1, depth)
ExpectedBlocks(i, depth) ==
  <<[kind |-> "mod", name |-> modules[i].name, depth |-> depth]>>
  \o ExpectedChildren(children_values(modules, i), 1, depth + 1)
  \o [k \in 1..Len(modules[i].identifiers) |->
        [kind |-> "packet", name |-> modules[i].identifiers[k], depth |-> depth + 1]]
  \o <<[kind |-> "close", name |-> <<>>, depth |-> depth]>>

\* The blocks fmt pushed: kind, label and indentation
Shape(b) ==
  [kind |-> b.kind, depth |-> b.depth,
   name |-> IF b.kind = "mod" THEN b.name
            ELSE IF b.kind = "packet" THEN b.struct.name ELSE <<>>]

FmtBlocks ==
  LET blocks == SelectSeq(out, LAMBDA b : b.kind \in {"mod", "packet", "close"})
  IN [k \in 1..Len(blocks) |-> Shape(blocks[k])]

Count(kind) == Cardinality({ k \in 1..Len(out) : out[k].kind = kind })

\* C9: fmt emits the tree depth-first with nested blocks: the opening of a node,
\* the complete blocks of its children in sorted order, the packet blocks of
\* its leaves in list order, then its closing brace; every opened block is
\* closed once and each block is indented by its depth.
C9_DepthFirst ==
  /\ pc \in {"register", "done"} =>
       /\ FmtBlocks = ExpectedBlocks(1, 0)
       /\ Count("mod") = Count("close")
       /\ Count("mod") = Len(modules)
  /\ InFmt => Count("mod") - Count("close") = Len(calls)

\* A node with a child and leaves of its own, below the root
C9_Witness ==
  /\ pc = "done"
  /\ \E i \in 2..Len(modules) :
       /\ children_of(modules, i) # {}
       /\ modules[i].identifiers # <<>>

\* The definitions whose name is the qualified name of the leaf fmt is at
AtIdentifier ==
  /\ InFmt
  /\ Top.child > Len(children_values(modules, Top.module))
  /\ Top.ident <= Len(modules[Top.module].identifiers)

Matches ==
  { d \in Retained : d.name =
      Some(join_path(modules, path, modules[Top.module].identifiers[Top.ident])) }

\* C3: when the qualified name of a leaf matches no retained definition or
\* more than one, generation aborts and no packet block is emitted for it.
C3_AbortUnlessOneMatch ==
  [][(AtIdentifier /\ Cardinality(Matches) # 1)
       => (pc' = "panicked" /\ out' = out)]_vars

\* The module names around position i of the output, outermost first
RECURSIVE OpenAt(_)
OpenAt(i) ==
  IF i = 0 THEN <<>>
  ELSE IF out[i].kind = "mod" THEN Append(OpenAt(i - 1), out[i].name)
  ELSE IF out[i].kind = "close" THEN SubSeq(OpenAt(i - 1), 1, Len(OpenAt(i - 1)) - 1)
  ELSE OpenAt(i - 1)

PacketBlocks == { k \in 1..Len(out) : out[k].kind = "packet" }

\* C4: when generation completes every retained, named packet has exactly one
\* packet block, in the namespace of its name's prefix segments, carrying its
\* own id and model id; no block belongs to a packet that is not retained.
C4_OneBlockPerPacket ==
  pc = "done" =>
    /\ \A d \in { r \in Retained : r.name # None } :
         /\ Cardinality({ k \in PacketBlocks : out[k].packet.packet_id = d.id }) = 1
         /\ \A k \in PacketBlocks : out[k].packet.packet_id = d.id =>
              /\ out[k].packet.model_id = d.model
              /\ OpenAt(k) = <<Str_packets>> \o PrefixSegments(replace_dot(d.name[1]))
    /\ \A k \in PacketBlocks :
         out[k].packet.packet_id \in { r.id : r \in { x \in Retained : x.name # None } }

\* C7: a retained definition without a name contributes a comment-only
\* placeholder with its id and model, no packet block and no registration.
C7_NamelessPlaceholder ==
  pc = "done" =>
    \A d \in { r \in Retained : r.name = None } :
      /\ \E k \in 1..Len(out) :
           out[k].kind = "comment" /\ out[k].id = d.id /\ out[k].model = d.model
      /\ \A k \in PacketBlocks : out[k].packet.packet_id # d.id
      /\ Len(Registrations) = Cardinality({ r \in Retained : r.name # None })
====
